---- MODULE Spec2Model ----
(***************************************************************************)
(* State machine of GenerativeInpaintingApp (src/inp.py): the image, the   *)
(* mask, the undo/redo stacks, the stroke recorder, the view scale and the *)
(* generate_inpainting call that is suspended in root.update(), and the     *)
(* callbacks that show_original and show_mask hand to root.after.          *)
(*                                                                         *)
(* An image is a record [size, content, mode]; a mask is a record          *)
(* [size, px, id] where px is the set of pixels whose value is 255 (a mask *)
(* only ever holds 0 and 255: Image.new('L', size, 0) and fill=255) and id *)
(* names the buffer: ImageDraw paints a buffer in place, so two references *)
(* to one buffer change together.                                          *)
(* Every Tk callback runs to completion on the one Tk thread, so a handler *)
(* is one step; generate_inpainting is two steps because root.update()     *)
(* (line 369) dispatches pending callbacks in the middle of it.            *)
(***************************************************************************)
EXTENDS Integers, Sequences, FiniteSets, TLC

VARIABLES image, original_image, mask, display_scale, drawing, brush_size,
          last_x, last_y, undo_stack, redo_stack, timers, gen_stack, dialog,
          log

vars == <<image, original_image, mask, display_scale, drawing, brush_size,
          last_x, last_y, undo_stack, redo_stack, timers, gen_stack, dialog,
          log>>

(* ------------------------------ bounds --------------------------------- *)

\* pushes onto the undo stack by a pointer-down or a clear stop at this depth
MaxUndo == 2
\* the same depth where the Generate button is in play
MaxGenUndo == 1
\* the pointer is pressed and moved at x = 0 and at x = MaxCoord
MaxCoord == 9
\* zoom events are taken while the scale stays within MaxZoom steps of 1.0
MaxZoom == 1
\* generate_inpainting calls that may be suspended in root.update() at once
MaxNest == 1
\* root.after callbacks of the View menu that may be pending at once
MaxTimers == 1
\* zoom round trips are tried with up to MaxWheel wheel steps each way
MaxWheel == 17

(* ----------------------------- constants ------------------------------- *)

\* Python's None; a present image or mask is a record with other fields, a
\* present coordinate is Num(v)
None == [none |-> TRUE]

Num(v) == [v |-> v]

DefaultBrush == 15
ZoomNum == 11
ZoomDen == 10
ScaleMinDen == 10
ScaleMax == 5
WheelUp == 4
WheelDown == 5

NoDialog == "none"
MsgNeedImageAndMask == "Please load an image and draw a mask first"
MsgNeedPrompt == "Please enter a prompt"
MsgGenerationFailed == "Generation failed"
MsgLoadFailed == "Failed to load image"

(* ------------------------------ helpers -------------------------------- *)

Abs(n) == IF n < 0 THEN -n ELSE n

Max(a, b) == IF a >= b THEN a ELSE b

Push(stack, x) == Append(stack, x)
Top(stack) == stack[Len(stack)]
Pop(stack) == SubSeq(stack, 1, Len(stack) - 1)

(* --------------------------- natural numbers --------------------------- *)

\* a natural number of any size is the sequence of its digits in base Limb,
\* the lowest first and the highest not 0; a sum of four products of two
\* digits stays below 2^31
LimbBits == 14
Limb == 2 ^ LimbBits

Min(a, b) == IF a <= b THEN a ELSE b

Digit(a, i) == IF 1 <= i /\ i <= Len(a) THEN a[i] ELSE 0

RECURSIVE Trim(_)
Trim(a) ==
  IF a # <<>> /\ a[Len(a)] = 0 THEN Trim(SubSeq(a, 1, Len(a) - 1)) ELSE a

RECURSIVE BFromInt(_)
BFromInt(n) == IF n = 0 THEN <<>> ELSE <<n % Limb>> \o BFromInt(n \div Limb)

RECURSIVE BToInt(_)
BToInt(a) == IF a = <<>> THEN 0 ELSE a[1] + Limb * BToInt(Tail(a))

\* the digits of a sequence of column sums, carries moved up
RECURSIVE Carried(_, _, _)
Carried(columns, i, carry) ==
  IF i > Len(columns) THEN BFromInt(carry)
  ELSE LET d == columns[i] + carry
       IN <<d % Limb>> \o Carried(columns, i + 1, d \div Limb)

BAdd(a, b) ==
  Carried([i \in 1 .. Max(Len(a), Len(b)) |-> Digit(a, i) + Digit(b, i)], 1, 0)

RECURSIVE SubFrom(_, _, _, _)
SubFrom(a, b, i, borrow) ==
  IF i > Len(a) THEN <<>>
  ELSE LET d == a[i] - Digit(b, i) - borrow
       IN IF d < 0 THEN <<d + Limb>> \o SubFrom(a, b, i + 1, 1)
          ELSE <<d>> \o SubFrom(a, b, i + 1, 0)

\* a - b where a >= b
BSub(a, b) == Trim(SubFrom(a, b, 1, 0))

RECURSIVE LessFrom(_, _, _)
LessFrom(a, b, i) ==
  IF i = 0 THEN FALSE
  ELSE IF a[i] # b[i] THEN a[i] < b[i]
  ELSE LessFrom(a, b, i - 1)

BLess(a, b) ==
  IF Len(a) # Len(b) THEN Len(a) < Len(b) ELSE LessFrom(a, b, Len(a))

BOdd(a) == a # <<>> /\ a[1] % 2 = 1

\* the sum of a[i] * b[j] over i + j = k + 1, from i upwards
RECURSIVE Column(_, _, _, _)
Column(a, b, k, i) ==
  IF i > Min(Len(a), k) THEN 0
  ELSE a[i] * b[k + 1 - i] + Column(a, b, k, i + 1)

BMul(a, b) ==
  IF a = <<>> \/ b = <<>> THEN <<>>
  ELSE Trim(Carried([k \in 1 .. Len(a) + Len(b) - 1 |->
                       Column(a, b, k, Max(1, k + 1 - Len(b)))], 1, 0))

\* the number of binary digits of a
Bits(a) ==
  IF a = <<>> THEN 0
  ELSE LimbBits * (Len(a) - 1)
       + (CHOOSE k \in 1 .. LimbBits :
            2 ^ (k - 1) <= a[Len(a)] /\ a[Len(a)] < 2 ^ k)

\* a * 2^s
ShiftLeft(a, s) ==
  LET w == s \div LimbBits
      b == s % LimbBits
  IN Trim([i \in 1 .. Len(a) + w + 1 |->
             (Digit(a, i - w) % 2 ^ (LimbBits - b)) * 2 ^ b
             + Digit(a, i - w - 1) \div 2 ^ (LimbBits - b)])

\* a \div 2^s
ShiftRight(a, s) ==
  LET w == s \div LimbBits
      b == s % LimbBits
  IN Trim([i \in 1 .. Len(a) - w |->
             a[i + w] \div 2 ^ b
             + (Digit(a, i + w + 1) % 2 ^ b) * 2 ^ (LimbBits - b)])

\* the binary digit of a that counts 2^k
Bit(a, k) == (Digit(a, k \div LimbBits + 1) \div 2 ^ (k % LimbBits)) % 2

\* a % 2^k # 0
LowBits(a, k) ==
  \E i \in 1 .. Len(a) :
    \/ i <= k \div LimbBits /\ a[i] # 0
    \/ i = k \div LimbBits + 1 /\ a[i] % 2 ^ (k % LimbBits) # 0

\* r \div d for r < d * Limb, where the highest of the four digits of d is
\* at least Limb / 2: the two highest digits of r over the highest of d give
\* the quotient or up to 2 more
QuotientDigit(r, d) ==
  LET guess == Min((Digit(r, 5) * Limb + Digit(r, 4)) \div d[4], Limb - 1)
      Fits(q) == ~BLess(r, BMul(d, BFromInt(q)))
  IN IF Fits(guess) THEN guess
     ELSE IF Fits(guess - 1) THEN guess - 1
     ELSE guess - 2

\* long division, one digit a step: qr is <<q, r>>, the digits of the
\* quotient found so far and the remainder
RECURSIVE Divide(_, _, _)
Divide(qr, d, steps) ==
  IF steps = 0 THEN qr
  ELSE LET r == IF qr[2] = <<>> THEN <<>> ELSE <<0>> \o qr[2]
           q == QuotientDigit(r, d)
       IN Divide(<<Trim(<<q>> \o qr[1]), BSub(r, BMul(d, BFromInt(q)))>>,
                 d, steps - 1)

(* ------------------------------- floats -------------------------------- *)

\* a Python float (IEEE 754 binary64) that is positive and normal is
\* [man, exp] with value man * 2^exp and 2^52 <= man < 2^53
MantissaBits == 53

\* n * 2^e, n > 0, rounded to the nearest float, ties to even; sticky tells
\* that the exact number is a little more than n * 2^e
Round(n, e, sticky) ==
  LET s == Bits(n) - MantissaBits IN
  IF s <= 0 THEN [man |-> ShiftLeft(n, -s), exp |-> e + s]
  ELSE LET q == ShiftRight(n, s)
           half == Bit(n, s - 1) = 1
           more == sticky \/ LowBits(n, s - 1)
           up == BAdd(q, <<1>>)
       IN IF half /\ (more \/ BOdd(q))
          THEN IF Bits(up) > MantissaBits
               THEN [man |-> ShiftRight(up, 1), exp |-> e + s + 1]
               ELSE [man |-> up, exp |-> e + s]
          ELSE [man |-> q, exp |-> e + s]

\* float(n) for an integer n > 0
FromInt(n) == Round(BFromInt(n), 0, FALSE)

FLess(a, b) == a.exp < b.exp \/ (a.exp = b.exp /\ BLess(a.man, b.man))

\* a * b
FMul(a, b) == Round(BMul(a.man, b.man), a.exp + b.exp, FALSE)

\* the mantissas take 4 digits; times 8 the highest is at least Limb / 2
Lift == 4 * LimbBits - MantissaBits

QuotientDigits == 4

\* a / b: the quotient of the mantissas to 4 digits after the point, rounded
FDiv(a, b) ==
  LET n == ShiftLeft(a.man, Lift)
      d == ShiftLeft(b.man, Lift)
      first == IF BLess(n, d) THEN <<<<>>, n>> ELSE <<<<1>>, BSub(n, d)>>
      qr == Divide(first, d, QuotientDigits)
  IN Round(qr[1], a.exp - b.exp - QuotientDigits * LimbBits, qr[2] # <<>>)

\* int(a) for a float below 2^28: Python's int() truncates
FTrunc(a) ==
  IF a.exp >= 0 THEN BToInt(ShiftLeft(a.man, a.exp))
  ELSE BToInt(ShiftRight(a.man, -a.exp))

(* ------------------------------ the scale ------------------------------ *)

\* the literals 1.0, 1.1, 0.1 and 5.0 of lines 19, 304, 306 and 309: a
\* literal is the float nearest to the decimal number
One == FromInt(1)
ZoomFactor == FDiv(FromInt(ZoomNum), FromInt(ZoomDen))
ScaleLow == FDiv(FromInt(1), FromInt(ScaleMinDen))
ScaleHigh == FromInt(ScaleMax)

\* min(max(0.1, scale), 5.0)
Clamp(scale) ==
  IF ~FLess(ScaleLow, scale) THEN ScaleLow
  ELSE IF FLess(ScaleHigh, scale) THEN ScaleHigh
  ELSE scale

\* display_scale *= 1.1 and display_scale /= 1.1, then line 309
Multiplied(scale) == Clamp(FMul(scale, ZoomFactor))
Divided(scale) == Clamp(FDiv(scale, ZoomFactor))

\* 1.0 after k zoom-in steps, and after k zoom-out steps
RECURSIVE ZoomedIn(_)
ZoomedIn(k) == IF k = 0 THEN One ELSE Multiplied(ZoomedIn(k - 1))

RECURSIVE ZoomedOut(_)
ZoomedOut(k) == IF k = 0 THEN One ELSE Divided(ZoomedOut(k - 1))

\* the scales at most k zoom steps away from 1.0
RECURSIVE ScalesWithin(_)
ScalesWithin(k) ==
  IF k = 0 THEN {One}
  ELSE LET near == ScalesWithin(k - 1)
       IN near \cup {Multiplied(sc) : sc \in near} \cup {Divided(sc) : sc \in near}

\* pointer positions: the pictures are one pixel high, the pointer stays on
\* that row
XCoords == {0, MaxCoord}
YCoords == {0}

\* int(v / scale): Python's int() truncates; every v here is >= 0
Quotient(v, scale) == IF v = 0 THEN 0 ELSE FTrunc(FDiv(FromInt(v), scale))

\* the steps and quotients for the scales near 1.0, worked out once
NearScales == ScalesWithin(MaxZoom)
NearLow == ZoomedOut(MaxZoom)
NearHigh == ZoomedIn(MaxZoom)

Stepped ==
  [sc \in NearScales |-> [in |-> Multiplied(sc), out |-> Divided(sc)]]

Quotients ==
  [sc \in NearScales |->
     [v \in XCoords \cup YCoords \cup {DefaultBrush} |-> Quotient(v, sc)]]

StepIn(scale) ==
  IF scale \in NearScales THEN Stepped[scale].in ELSE Multiplied(scale)

StepOut(scale) ==
  IF scale \in NearScales THEN Stepped[scale].out ELSE Divided(scale)

IntDiv(v, scale) ==
  IF scale \in NearScales /\ v \in DOMAIN Quotients[scale]
  THEN Quotients[scale][v]
  ELSE Quotient(v, scale)

(* --------------------------- the file system --------------------------- *)

\* what the file dialog can return: "" is a cancelled dialog
Paths == {"", "a.png", "b.png", "bad.txt"}

\* Image.open(path) raises on a file that is no picture
Decodes(path) == path \in {"a.png", "b.png"}

\* the size of the decoded picture
FileSize(path) == IF path = "a.png" THEN <<2, 1>> ELSE <<1, 1>>

Sizes == {<<2, 1>>, <<1, 1>>}

\* Image.convert(mode): same pixels, another mode
Convert(im, mode) == [im EXCEPT !.mode = mode]

\* Image.new('L', size, 0)
NewMask(size) == [size |-> size, px |-> {}]

Grid(size) == (0 .. size[1] - 1) \X (0 .. size[2] - 1)

(* --------------------------- ImageDraw.line ---------------------------- *)

\* the pixels of the segment p..q: the integer points of its bounding box
\* that lie within half a step of the line
Segment(p, q) ==
  LET dx == q[1] - p[1]
      dy == q[2] - p[2]
      xs == (IF dx >= 0 THEN p[1] ELSE q[1]) .. (IF dx >= 0 THEN q[1] ELSE p[1])
      ys == (IF dy >= 0 THEN p[2] ELSE q[2]) .. (IF dy >= 0 THEN q[2] ELSE p[2])
  IN {r \in xs \X ys :
        2 * Abs(dx * (r[2] - p[2]) - dy * (r[1] - p[1])) <= Max(Abs(dx), Abs(dy))}

\* draw.line([p, q], fill=255, width=w) on a buffer of the given size: a
\* width of 0 or 1 paints the segment itself, a wider line also the pixels
\* within (w - 1) / 2 of it; whatever falls outside the buffer is clipped
LinePixels(size, p, q, w) ==
  LET reach == Max(w, 1) - 1
  IN {c \in Grid(size) :
        \E r \in Segment(p, q) :
          /\ 2 * Abs(c[1] - r[1]) <= reach
          /\ 2 * Abs(c[2] - r[2]) <= reach}

(* ------------------------- the application state ----------------------- *)

\* the fields of self that the handlers read and write, as one record
cur ==
  [image |-> image, original_image |-> original_image, mask |-> mask,
   display_scale |-> display_scale, drawing |-> drawing,
   brush_size |-> brush_size, last_x |-> last_x, last_y |-> last_y,
   undo_stack |-> undo_stack, redo_stack |-> redo_stack, timers |-> timers,
   dialog |-> dialog]

\* __init__, lines 16-29
InitState ==
  [image |-> None, original_image |-> None, mask |-> None,
   display_scale |-> One, drawing |-> FALSE,
   brush_size |-> DefaultBrush, last_x |-> None, last_y |-> None,
   undo_stack |-> <<>>, redo_stack |-> <<>>, timers |-> <<>>,
   dialog |-> NoDialog]

\* dialog holds the message box raised by the handler that ran last
Enter(s) == [s EXCEPT !.dialog = NoDialog]

(* ----------------------------- mask buffers ---------------------------- *)

\* every reference to a mask buffer that self, its stacks and the pending
\* callbacks hold, None where a place holds no mask
Holders(s) ==
  <<s.mask>> \o s.undo_stack \o s.redo_stack
    \o [i \in 1 .. Len(s.timers) |-> s.timers[i].mask]

\* the buffer behind a reference, -1 where a place holds no mask
BufferOf(r) == IF r = None THEN -1 ELSE r.id

\* the buffer behind each reference of Holders(s)
Buffers(s) ==
  LET h == Holders(s) IN [i \in 1 .. Len(h) |-> BufferOf(h[i])]

Unused(s, n) ==
  /\ BufferOf(s.mask) # n
  /\ \A i \in 1 .. Len(s.undo_stack) : BufferOf(s.undo_stack[i]) # n
  /\ \A i \in 1 .. Len(s.redo_stack) : BufferOf(s.redo_stack[i]) # n
  /\ \A i \in 1 .. Len(s.timers) : BufferOf(s.timers[i].mask) # n

\* a buffer that is not in use: of k + 1 names, k references leave one
Fresh(s) ==
  CHOOSE n \in 0 .. 1 + Len(s.undo_stack) + Len(s.redo_stack) + Len(s.timers) :
    Unused(s, n)

\* a new buffer with the content m: Image.new and Image.copy
Allocated(s, m) == [size |-> m.size, px |-> m.px, id |-> Fresh(s)]

\* mask.copy()
Copy(s, m) == Allocated(s, m)

\* the content of a mask, whichever buffer holds it
Pixels(m) == IF m = None THEN None ELSE [size |-> m.size, px |-> m.px]

\* ImageDraw.Draw(m).line(...): the buffer of m takes the pixels px, and
\* with it every reference to that buffer
Painted(s, m, px) ==
  LET In(r) == IF r # None /\ r.id = m.id THEN [r EXCEPT !.px = px] ELSE r
  IN IF Unused([s EXCEPT !.mask = None], m.id)
     THEN [s EXCEPT !.mask = [m EXCEPT !.px = px]]
     ELSE [s EXCEPT
             !.mask = [m EXCEPT !.px = px],
             !.undo_stack = [i \in 1 .. Len(s.undo_stack) |-> In(s.undo_stack[i])],
             !.redo_stack = [i \in 1 .. Len(s.redo_stack) |-> In(s.redo_stack[i])],
             !.timers = [i \in 1 .. Len(s.timers) |->
                           [s.timers[i] EXCEPT !.mask = In(@)]]]

\* the reference r with its buffer named by a place of ids that refers to
\* it: the same place for every reference to one buffer
Named(ids, r) ==
  IF r = None THEN r
  ELSE [r EXCEPT !.id = CHOOSE i \in 1 .. Len(ids) : ids[i] = r.id]

\* every buffer of s bears the name of the place that refers to it
Canonical(s) ==
  /\ BufferOf(s.mask) \in {-1, 1}
  /\ \A i \in 1 .. Len(s.undo_stack) : s.undo_stack[i].id = 1 + i
  /\ \A i \in 1 .. Len(s.redo_stack) :
       s.redo_stack[i].id = 1 + Len(s.undo_stack) + i
  /\ \A i \in 1 .. Len(s.timers) :
       BufferOf(s.timers[i].mask)
         \in {-1, 1 + Len(s.undo_stack) + Len(s.redo_stack) + i}

\* which buffer is which does not show: a buffer is named by a place that
\* refers to it. The handlers that store, move or drop a reference return
\* with their buffers named anew; the others leave every reference in its
\* place.
Renamed(s) ==
  IF Canonical(s) THEN s ELSE
  LET ids == Buffers(s) IN
  [s EXCEPT
     !.mask = Named(ids, @),
     !.undo_stack = [i \in 1 .. Len(s.undo_stack) |-> Named(ids, s.undo_stack[i])],
     !.redo_stack = [i \in 1 .. Len(s.redo_stack) |-> Named(ids, s.redo_stack[i])],
     !.timers = [i \in 1 .. Len(s.timers) |->
                   [s.timers[i] EXCEPT !.mask = Named(ids, @)]]]

\* update_display raises in overlay.paste(mask_rgba, mask=self.mask) when the
\* mask and the image differ in size
update_display_raises(s) ==
  /\ s.image # None
  /\ s.mask # None
  /\ s.mask.size # s.image.size

(* ------------------------------ handlers ------------------------------- *)

load_image(s0, file_path) ==
  LET s == Enter(s0) IN
  IF file_path = "" THEN s
  ELSE IF ~Decodes(file_path)
       THEN [s EXCEPT !.dialog = MsgLoadFailed]
       ELSE LET im == [size |-> FileSize(file_path), content |-> file_path,
                       mode |-> "RGBA"]
            IN [s EXCEPT !.image = im, !.original_image = im, !.mask = None]

\* start_drawing without line 262: the redo stack survives a pointer-down
start_drawing_keeps_redo(s0, x, y) ==
  LET s == Enter(s0) IN
  IF s.image = None THEN s
  ELSE [s EXCEPT !.drawing = TRUE, !.last_x = Num(x), !.last_y = Num(y),
                 !.undo_stack = IF s.mask # None THEN Push(@, Copy(s, s.mask)) ELSE @]

\* start_drawing without .copy() in line 261: the undo stack refers to the
\* buffer that the stroke goes on to paint
start_drawing_shares(s0, x, y) ==
  LET s == Enter(s0) IN
  IF s.image = None THEN s
  ELSE [s EXCEPT !.drawing = TRUE, !.last_x = Num(x), !.last_y = Num(y),
                 !.undo_stack = IF s.mask # None THEN Push(@, s.mask) ELSE @,
                 !.redo_stack = <<>>]

\* start_drawing without the test of line 252
start_drawing_untested(s0, x, y) ==
  LET s == Enter(s0) IN
  [s EXCEPT !.drawing = TRUE, !.last_x = Num(x), !.last_y = Num(y),
            !.undo_stack = IF s.mask # None THEN Push(@, Copy(s, s.mask)) ELSE @,
            !.redo_stack = <<>>]

start_drawing(s0, x, y) ==
  LET s == Enter(s0) IN
  IF s.image = None THEN s
  ELSE [s EXCEPT !.drawing = TRUE, !.last_x = Num(x), !.last_y = Num(y),
                 !.undo_stack = IF s.mask # None THEN Push(@, Copy(s, s.mask)) ELSE @,
                 !.redo_stack = <<>>]

draw(s0, x, y) ==
  LET s == Enter(s0) IN
  IF ~s.drawing \/ s.image = None THEN s
  ELSE LET m0 == IF s.mask = None
                 THEN Allocated(s, NewMask(s.image.size))
                 ELSE s.mask
           \* the quotients of line 277 to 283, each worked out once
           line == UNION {LinePixels(m0.size, <<q[s.last_x.v], q[s.last_y.v]>>,
                                     <<q[x], q[y]>>, q[s.brush_size]) :
                            q \in {[v \in {s.last_x.v, s.last_y.v, x, y, s.brush_size}
                                      |-> IntDiv(v, s.display_scale)]}}
           s1 == Painted(s, m0, m0.px \cup line)
       IN IF update_display_raises(s1) THEN s1
          ELSE [s1 EXCEPT !.last_x = Num(x), !.last_y = Num(y)]

\* stop_drawing that also takes a snapshot at pointer-up
stop_drawing_snapshots(s0) ==
  [Enter(s0) EXCEPT !.drawing = FALSE,
                    !.undo_stack = IF s0.mask # None THEN Push(@, Copy(s0, s0.mask)) ELSE @]

stop_drawing(s0) == [Enter(s0) EXCEPT !.drawing = FALSE]

\* zoom without line 309: the scale is not limited
zoom_unclamped(s0, delta, num) ==
  LET s == Enter(s0) IN
  IF s.image = None THEN s
  ELSE LET sc == s.display_scale
       IN [s EXCEPT !.display_scale =
             IF delta > 0 \/ num = WheelUp THEN FMul(sc, ZoomFactor)
             ELSE IF delta < 0 \/ num = WheelDown THEN FDiv(sc, ZoomFactor)
             ELSE sc]

zoom(s0, delta, num) ==
  LET s == Enter(s0) IN
  IF s.image = None THEN s
  ELSE LET sc == s.display_scale
       IN [s EXCEPT !.display_scale =
             IF delta > 0 \/ num = WheelUp THEN StepIn(sc)
             ELSE IF delta < 0 \/ num = WheelDown THEN StepOut(sc)
             ELSE Clamp(sc)]

\* clear_mask without the test of line 392: the redo stack is emptied also
\* when there is no mask to clear
clear_mask_untested(s0) ==
  LET s == Enter(s0) IN
  [s EXCEPT !.undo_stack = IF s.mask # None THEN Push(@, Copy(s, s.mask)) ELSE @,
            !.redo_stack = <<>>, !.mask = None]

\* clear_mask without line 394: the cleared mask is not kept for undo
clear_mask_no_snapshot(s0) ==
  LET s == Enter(s0) IN
  IF s.mask # None
  THEN [s EXCEPT !.redo_stack = <<>>, !.mask = None]
  ELSE s

clear_mask(s0) ==
  LET s == Enter(s0) IN
  IF s.mask # None
  THEN [s EXCEPT !.undo_stack = Push(@, Copy(s, s.mask)), !.redo_stack = <<>>,
                 !.mask = None]
  ELSE s

\* undo_last_stroke without the test of line 403: with nothing to undo the
\* mask goes to the redo stack and no mask is left
undo_last_stroke_untested(s0) ==
  LET s == Enter(s0) IN
  [s EXCEPT !.redo_stack = IF s.mask # None THEN Push(@, Copy(s, s.mask)) ELSE @,
            !.mask = IF s.undo_stack # <<>> THEN Top(s.undo_stack) ELSE None,
            !.undo_stack = IF @ # <<>> THEN Pop(@) ELSE @]

undo_last_stroke(s0) ==
  LET s == Enter(s0) IN
  IF s.undo_stack # <<>>
  THEN [s EXCEPT !.redo_stack = IF s.mask # None THEN Push(@, Copy(s, s.mask)) ELSE @,
                 !.mask = Top(s.undo_stack),
                 !.undo_stack = Pop(@)]
  ELSE s

redo_last_stroke(s0) ==
  LET s == Enter(s0) IN
  IF s.redo_stack # <<>>
  THEN [s EXCEPT !.undo_stack = IF s.mask # None THEN Push(@, Copy(s, s.mask)) ELSE @,
                 !.mask = Top(s.redo_stack),
                 !.redo_stack = Pop(@)]
  ELSE s

(* ---------------------------- the View menu ---------------------------- *)

\* Image.new('RGBA', self.image.size, ...) with the red overlay pasted
\* through the mask, lines 441-443
MaskDisplay(s) ==
  [size |-> s.image.size, content |-> "mask_display", mode |-> "RGBA"]

\* lines 441-443 raise: no image to take the size of, or paste() refusing a
\* mask of another size
show_mask_raises(s) == s.image = None \/ s.mask.size # s.image.size

\* the lambda of line 431 with the temp_image and temp_mask it has captured
RestoreState(im, m) == [callback |-> "restore_state", image |-> im, mask |-> m]

\* the lambda of line 449 with the temp_image it has captured
RestoreImage(im) == [callback |-> "restore_image", image |-> im, mask |-> None]

show_original(s0) ==
  LET s == Enter(s0) IN
  IF s.original_image # None
  THEN [s EXCEPT !.image = s.original_image, !.mask = None,
                 !.timers = Append(@, RestoreState(s.image, s.mask))]
  ELSE s

show_mask(s0) ==
  LET s == Enter(s0) IN
  IF s.mask # None /\ ~show_mask_raises(s)
  THEN [s EXCEPT !.image = MaskDisplay(s),
                 !.timers = Append(@, RestoreImage(s.image))]
  ELSE s

\* a message box that is open stays open while a timer fires
restore_state(s, im, m) == [s EXCEPT !.image = im, !.mask = m]

restore_image(s, im) == [s EXCEPT !.image = im]

\* the callback that is due first runs and leaves the queue: all are
\* scheduled 1000 ms ahead, so they fire in the order they were scheduled
fire(s) ==
  LET t == Head(s.timers)
      rest == [s EXCEPT !.timers = Tail(@)]
  IN IF t.callback = "restore_state"
     THEN restore_state(rest, t.image, t.mask)
     ELSE restore_image(rest, t.image)

(* ------------------------- generate_inpainting ------------------------- *)

\* what prompt_text.get("1.0", tk.END) can return: a Text widget always ends
\* its content with a newline
Texts == {<<"\n">>, <<" ", "\n">>, <<"a", "\n">>, <<" ", "a", "\n">>}

Whitespace == {" ", "\n"}

RECURSIVE LStrip(_)
LStrip(t) ==
  IF t # <<>> /\ Head(t) \in Whitespace THEN LStrip(Tail(t)) ELSE t

RECURSIVE RStrip(_)
RStrip(t) ==
  IF t # <<>> /\ t[Len(t)] \in Whitespace
  THEN RStrip(SubSeq(t, 1, Len(t) - 1))
  ELSE t

\* str.strip()
Strip(t) == RStrip(LStrip(t))

\* the precondition check without .strip(): a blank prompt passes
PreconditionError_untrimmed(s, text) ==
  IF s.image = None \/ s.mask = None THEN MsgNeedImageAndMask
  ELSE IF text = <<>> THEN MsgNeedPrompt
  ELSE NoDialog

\* lines 350-357: the message box of a failed precondition, NoDialog if none
PreconditionError(s, text) ==
  IF s.image = None \/ s.mask = None THEN MsgNeedImageAndMask
  ELSE IF Strip(text) = <<>> THEN MsgNeedPrompt
  ELSE NoDialog

\* line 359: the call goes on into the try block and reaches root.update()
Suspends(s, text) == PreconditionError(s, text) = NoDialog

\* lines 349-369: from the entry to root.update(); nothing of self is
\* assigned, a failed precondition shows its message box and returns
generate_enter(s0, text) ==
  [Enter(s0) EXCEPT !.dialog = PreconditionError(s0, text)]

\* lines 364-365 and 354: the locals that the call keeps across root.update()
Frame(s, text) ==
  [init_image |-> Convert(s.image, "RGB"),
   mask_image |-> [size |-> s.mask.size, px |-> s.mask.px, mode |-> "RGB"],
   prompt |-> Strip(text)]

\* what self.pipeline(...) can do: raise (None) or return a picture; the
\* pipeline is external and picks the output size itself
PipelineOutcomes ==
  {None} \cup {[size |-> sz, content |-> "generated", mode |-> "RGB"] : sz \in Sizes}

\* generate_return with the mask dropped before the pipeline is called
generate_return_clears_first(s0, outcome) ==
  LET s == [Enter(s0) EXCEPT !.mask = None] IN
  IF outcome = None
  THEN [s EXCEPT !.dialog = MsgGenerationFailed]
  ELSE [s EXCEPT !.image = Convert(outcome, "RGBA")]

\* generate_return without line 383: the consumed mask stays
generate_return_keeps_mask(s0, outcome) ==
  LET s == Enter(s0) IN
  IF outcome = None
  THEN [s EXCEPT !.dialog = MsgGenerationFailed]
  ELSE [s EXCEPT !.image = Convert(outcome, "RGBA")]

\* generate_return that empties the history when it commits
generate_return_clears_history(s0, outcome) ==
  LET s == Enter(s0) IN
  IF outcome = None
  THEN [s EXCEPT !.dialog = MsgGenerationFailed]
  ELSE [s EXCEPT !.image = Convert(outcome, "RGBA"), !.mask = None,
                 !.undo_stack = <<>>, !.redo_stack = <<>>]

\* lines 372-389: the pipeline call and what follows it
generate_return(s0, outcome) ==
  LET s == Enter(s0) IN
  IF outcome = None
  THEN [s EXCEPT !.dialog = MsgGenerationFailed]
  ELSE [s EXCEPT !.image = Convert(outcome, "RGBA"), !.mask = None]

(* ------------------------------- actions ------------------------------- *)

\* the scale is at most MaxZoom zoom steps away from 1.0
WithinZoomBound(scale) == ~FLess(scale, NearLow) /\ ~FLess(NearHigh, scale)

\* the mouse wheel events bound in setup_canvas, lines 216-218
WheelEvents ==
  {[delta |-> 120, num |-> 0], [delta |-> -120, num |-> 0],
   [delta |-> 0, num |-> WheelUp], [delta |-> 0, num |-> WheelDown]}

\* the handler returns with the fields of s
Becomes(s) ==
  /\ image' = s.image
  /\ original_image' = s.original_image
  /\ mask' = s.mask
  /\ display_scale' = s.display_scale
  /\ drawing' = s.drawing
  /\ brush_size' = s.brush_size
  /\ last_x' = s.last_x
  /\ last_y' = s.last_y
  /\ undo_stack' = s.undo_stack
  /\ redo_stack' = s.redo_stack
  /\ timers' = s.timers
  /\ dialog' = s.dialog

\* messagebox.showerror is modal: it returns when the user closes the box,
\* and until then the window takes no pointer, wheel, button or menu event
Modal == dialog # NoDialog

\* the user closes the message box
dismiss(s) == [s EXCEPT !.dialog = NoDialog]

(* -------------------- which branch a handler takes --------------------- *)

load_image_branch(s, file_path) ==
  IF file_path = "" THEN "load_image:cancelled"
  ELSE IF ~Decodes(file_path) THEN "load_image:failed"
  ELSE "load_image"

start_drawing_branch(s) ==
  IF s.image = None THEN "start_drawing:no_image" ELSE "start_drawing"

draw_branch(s) ==
  IF ~s.drawing \/ s.image = None THEN "draw:ignored" ELSE "draw"

zoom_branch(s) == IF s.image = None THEN "zoom:no_image" ELSE "zoom"

clear_mask_branch(s) ==
  IF s.mask # None THEN "clear_mask" ELSE "clear_mask:absent"

undo_last_stroke_branch(s) ==
  IF s.undo_stack # <<>> THEN "undo_last_stroke" ELSE "undo_last_stroke:empty"

redo_last_stroke_branch(s) ==
  IF s.redo_stack # <<>> THEN "redo_last_stroke" ELSE "redo_last_stroke:empty"

show_original_branch(s) ==
  IF s.original_image # None THEN "show_original" ELSE "show_original:no_image"

show_mask_branch(s) ==
  IF s.mask = None THEN "show_mask:no_mask"
  ELSE IF show_mask_raises(s) THEN "show_mask:raised"
  ELSE "show_mask"

generate_enter_branch(s, text) ==
  IF Suspends(s, text) THEN "generate_inpainting:update"
  ELSE "generate_inpainting:rejected"

generate_return_branch(outcome) ==
  IF outcome = None THEN "generate_inpainting:failed"
  ELSE "generate_inpainting:committed"

\* log names the handlers that ran last and the branch each took, the most
\* recent last; it keeps the length it starts with
Logged(name) == log' = IF log = <<>> THEN log ELSE Append(Tail(log), name)

\* the state after __init__
Constructed ==
  /\ image = InitState.image
  /\ original_image = InitState.original_image
  /\ mask = InitState.mask
  /\ display_scale = InitState.display_scale
  /\ drawing = InitState.drawing
  /\ brush_size = InitState.brush_size
  /\ last_x = InitState.last_x
  /\ last_y = InitState.last_y
  /\ undo_stack = InitState.undo_stack
  /\ redo_stack = InitState.redo_stack
  /\ timers = InitState.timers
  /\ dialog = InitState.dialog
  /\ gen_stack = <<>>

\* no log is kept
Init ==
  /\ Constructed
  /\ log = <<>>

\* the log keeps the last two handlers
InitEdit ==
  /\ Constructed
  /\ log = <<"__init__", "__init__">>

LoadImage ==
  \E file_path \in Paths :
    /\ ~Modal
    /\ Becomes(load_image(cur, file_path))
    /\ Logged(load_image_branch(cur, file_path))
    /\ UNCHANGED gen_stack

StartDrawing(depth) ==
  \E x \in XCoords, y \in YCoords :
    /\ ~Modal
    /\ Len(undo_stack) < depth
    /\ Becomes(Renamed(start_drawing(cur, x, y)))
    /\ Logged(start_drawing_branch(cur))
    /\ UNCHANGED gen_stack

Draw ==
  \E x \in XCoords, y \in YCoords :
    /\ ~Modal
    /\ Becomes(Renamed(draw(cur, x, y)))
    /\ Logged(draw_branch(cur))
    /\ UNCHANGED gen_stack

StopDrawing ==
  /\ ~Modal
  /\ Becomes(stop_drawing(cur))
  /\ Logged("stop_drawing")
  /\ UNCHANGED gen_stack

ZoomIf(bounded) ==
  \E ev \in WheelEvents :
    /\ ~Modal
    /\ bounded => WithinZoomBound(zoom(cur, ev.delta, ev.num).display_scale)
    /\ Becomes(zoom(cur, ev.delta, ev.num))
    /\ Logged(zoom_branch(cur))
    /\ UNCHANGED gen_stack

\* the wheel while the scale stays near 1.0
Zoom == ZoomIf(TRUE)

\* the wheel as far as the clamp of line 309 lets it go
ZoomFreely == ZoomIf(FALSE)

ClearMask(depth) ==
  /\ ~Modal
  /\ Len(undo_stack) < depth
  /\ Becomes(Renamed(clear_mask(cur)))
  /\ Logged(clear_mask_branch(cur))
  /\ UNCHANGED gen_stack

UndoLastStroke ==
  /\ ~Modal
  /\ Becomes(Renamed(undo_last_stroke(cur)))
  /\ Logged(undo_last_stroke_branch(cur))
  /\ UNCHANGED gen_stack

RedoLastStroke ==
  /\ ~Modal
  /\ Becomes(Renamed(redo_last_stroke(cur)))
  /\ Logged(redo_last_stroke_branch(cur))
  /\ UNCHANGED gen_stack

ShowOriginal ==
  /\ ~Modal
  /\ Len(timers) < MaxTimers
  /\ Becomes(Renamed(show_original(cur)))
  /\ Logged(show_original_branch(cur))
  /\ UNCHANGED gen_stack

ShowMask ==
  /\ ~Modal
  /\ Len(timers) < MaxTimers
  /\ Becomes(show_mask(cur))
  /\ Logged(show_mask_branch(cur))
  /\ UNCHANGED gen_stack

\* a second has passed since the oldest pending root.after: its callback
\* runs, also under an open message box and inside root.update()
FireTimer ==
  /\ timers # <<>>
  /\ Becomes(Renamed(fire(cur)))
  /\ Logged(Head(timers).callback)
  /\ UNCHANGED gen_stack

\* generate_inpainting up to root.update(): a call whose preconditions fail
\* returns at once, any other is suspended there with its locals
GenerateEnterWith(text) ==
  /\ ~Modal
  /\ Becomes(generate_enter(cur, text))
  /\ IF Suspends(cur, text)
     THEN /\ Len(gen_stack) < MaxNest
          /\ gen_stack' = Push(gen_stack, Frame(cur, text))
     ELSE UNCHANGED gen_stack
  /\ Logged(generate_enter_branch(cur, text))

GenerateEnter == \E text \in Texts : GenerateEnterWith(text)

\* root.update() returns to the innermost suspended call, which runs the
\* pipeline and finishes
GenerateReturn ==
  \E outcome \in PipelineOutcomes :
    /\ ~Modal
    /\ gen_stack # <<>>
    /\ Becomes(generate_return(cur, outcome))
    /\ gen_stack' = Pop(gen_stack)
    /\ Logged(generate_return_branch(outcome))

\* the message box is closed; the handler that opened it has done its work
Dismiss ==
  /\ Modal
  /\ Becomes(dismiss(cur))
  /\ UNCHANGED <<gen_stack, log>>

\* the canvas and the Edit menu: loading, painting, clearing, undo and redo
NextEdit ==
  \/ LoadImage
  \/ StartDrawing(MaxUndo)
  \/ Draw
  \/ StopDrawing
  \/ ClearMask(MaxUndo)
  \/ UndoLastStroke
  \/ RedoLastStroke
  \/ Dismiss

SpecEdit == InitEdit /\ [][NextEdit]_vars

\* loading, painting, zooming and the Generate button
NextGen ==
  \/ LoadImage
  \/ StartDrawing(MaxGenUndo)
  \/ Draw
  \/ StopDrawing
  \/ Zoom
  \/ GenerateEnter
  \/ GenerateReturn
  \/ Dismiss

SpecGen == Init /\ [][NextGen]_vars

\* loading and painting next to the View menu and its timers
NextView ==
  \/ LoadImage
  \/ StartDrawing(MaxGenUndo)
  \/ Draw
  \/ StopDrawing
  \/ ShowOriginal
  \/ ShowMask
  \/ FireTimer
  \/ Dismiss

SpecView == Init /\ [][NextView]_vars

\* loading and the mouse wheel
NextZoom ==
  \/ LoadImage
  \/ ZoomFreely
  \/ Dismiss

SpecZoom == Init /\ [][NextZoom]_vars

\* every handler
Next ==
  \/ NextEdit
  \/ NextGen
  \/ NextView
  \/ NextZoom

Spec == Init /\ [][Next]_vars

(* ------------------------------ the claims ----------------------------- *)

LastOp == log[Len(log)]

\* pointer-down at x0, pointer-move to x1, pointer-up
Stroke(s, x0, x1) == stop_drawing(draw(start_drawing(s, x0, 0), x1, 0))

\* the image, the mask and the history of a state
Durable(s) ==
  <<s.image, Pixels(s.mask),
    [i \in 1 .. Len(s.undo_stack) |-> Pixels(s.undo_stack[i])],
    [i \in 1 .. Len(s.redo_stack) |-> Pixels(s.redo_stack[i])]>>

RECURSIVE UndoTimes(_, _)
UndoTimes(s, n) == IF n = 0 THEN s ELSE UndoTimes(undo_last_stroke(s), n - 1)

RECURSIVE RedoTimes(_, _)
RedoTimes(s, n) == IF n = 0 THEN s ELSE RedoTimes(redo_last_stroke(s), n - 1)

\* C1: with an image loaded, a complete stroke (pointer-down, pointer-move,
\* pointer-up) followed by one undo leaves the mask as it was before the
\* pointer-down, also when there was no mask before the stroke.
C1_StrokeIsOneUndoUnit ==
  image # None =>
    \A x0 \in XCoords, x1 \in XCoords :
      Pixels(undo_last_stroke(Stroke(cur, x0, x1)).mask) = Pixels(mask)

\* C2: for every N from 1 to the depth of the undo stack, N undos followed
\* by N redos leave the mask as it was before the undos, also when there
\* was no mask before them.
C2_UndoRedoRoundTrip ==
  \A n \in 1 .. Len(undo_stack) :
    Pixels(RedoTimes(UndoTimes(cur, n), n).mask) = Pixels(mask)

\* C3: when a mask M is present, clear_mask followed by one undo leaves the
\* mask equal to M; and whenever a clear of a present mask has just been
\* followed by an undo, a mask is present and nothing is left to redo.
C3_ClearThenUndoRestores ==
  /\ mask # None =>
       Pixels(undo_last_stroke(clear_mask(cur)).mask) = Pixels(mask)
  /\ log = <<"clear_mask", "undo_last_stroke">> =>
       mask # None /\ redo_stack = <<>>

\* a stroke painted a mask, it was cleared, and the undo has brought back
\* the painted pixels
C3_Witness ==
  /\ log = <<"clear_mask", "undo_last_stroke">>
  /\ mask # None
  /\ mask.px # {}
  /\ undo_stack # <<>>

\* C4: whenever a mask is present, its size is the size of the image.
C4_MaskHasImageSize ==
  mask # None => image # None /\ mask.size = image.size

\* C5: a successful load_image replaces the image, leaves no mask, empties
\* the undo and the redo stack and keeps the view scale, so that undo and
\* redo do nothing right after it.
C5_LoadResetsHistory ==
  \A file_path \in {f \in Paths : f # "" /\ Decodes(f)} :
    LET loaded == load_image(cur, file_path) IN
      /\ loaded.image.content = file_path
      /\ loaded.mask = None
      /\ loaded.undo_stack = <<>>
      /\ loaded.redo_stack = <<>>
      /\ loaded.display_scale = display_scale
      /\ Durable(undo_last_stroke(loaded)) = Durable(loaded)
      /\ Durable(redo_last_stroke(loaded)) = Durable(loaded)

Rejected(s, text) == s.image = None \/ s.mask = None \/ Strip(text) = <<>>

Pictures == PipelineOutcomes \ {None}

\* C8: when a call is suspended (its preconditions held) and the pipeline
\* returns a picture of the size of the image, generate_inpainting ends with
\* that picture as the image (the same pixels, in RGBA), without a mask and
\* with the view scale it had.
C8_GenerationCommits ==
  gen_stack # <<>> =>
    \A picture \in {p \in Pictures : image # None /\ p.size = image.size} :
      LET done == generate_return(cur, picture) IN
        /\ done.image = Convert(picture, "RGBA")
        /\ done.mask = None
        /\ done.display_scale = display_scale
        /\ done.dialog = NoDialog

\* a generated picture, of the size of the picture that was loaded, is the
\* image, there is no mask, and the view is zoomed
C8_Witness ==
  /\ image # None
  /\ image.content = "generated"
  /\ original_image.size = image.size
  /\ mask = None
  /\ display_scale # One
  /\ gen_stack = <<>>
  /\ dialog = NoDialog

\* C9: when the pipeline returns a picture whose size is not the size of
\* the image, generate_inpainting reports an error and leaves image, mask
\* and history as they were.
C9_MismatchRejected ==
  gen_stack # <<>> =>
    \A picture \in {p \in Pictures : image # None /\ p.size # image.size} :
      LET done == generate_return(cur, picture) IN
        /\ done.dialog # NoDialog
        /\ Durable(done) = Durable(cur)

\* C10: right after a pointer-down with an image loaded, and right after a
\* clear of a present mask, the redo stack is empty; and after an undo and a
\* stroke, a redo leaves the mask as the stroke left it.
C10_MutationDiscardsRedo ==
  /\ LastOp \in {"start_drawing", "clear_mask"} => redo_stack = <<>>
  /\ image # None =>
       \A x0 \in XCoords, x1 \in XCoords :
         LET painted == Stroke(undo_last_stroke(cur), x0, x1) IN
           redo_last_stroke(painted).mask = painted.mask

\* an undo took a mask back, and the pointer-down after it has left nothing
\* to redo
C10_Witness ==
  /\ log = <<"undo_last_stroke", "start_drawing">>
  /\ mask # None
  /\ undo_stack # <<>>
  /\ redo_stack = <<>>

\* the two commands of the View menu
Previews == {"show_original", "show_mask"}

preview(s, kind) ==
  IF kind = "show_original" THEN show_original(s) ELSE show_mask(s)

\* every pending callback fires, the oldest first
RECURSIVE FireAll(_)
FireAll(s) == IF s.timers = <<>> THEN s ELSE FireAll(fire(s))

\* C11: with no revert pending, one preview, or two previews of which the
\* second starts before the revert of the first has fired, followed by all
\* their reverts leave the image and the mask as they were before the first
\* preview.
C11_PreviewsLeaveNoTrace ==
  timers = <<>> =>
    \A first \in Previews :
      /\ LET after == FireAll(preview(cur, first))
         IN after.image = image /\ after.mask = mask
      /\ \A second \in Previews :
           LET after == FireAll(preview(preview(cur, first), second))
           IN after.image = image /\ after.mask = mask

\* the wheel turned up, and turned down, on Windows
WheelIn == [delta |-> 120, num |-> 0]
WheelBack == [delta |-> -120, num |-> 0]

\* k zoom events ev in a row
RECURSIVE ZoomTimes(_, _, _)
ZoomTimes(s, ev, k) ==
  IF k = 0 THEN s
  ELSE CHOOSE after \in {zoom(before, ev.delta, ev.num) :
                           before \in {ZoomTimes(s, ev, k - 1)}} : TRUE

\* k steps in never reach the clamp
Unclamped(s, k) == FLess(ZoomTimes(s, WheelIn, k).display_scale, ScaleHigh)

\* the scale after k steps in and k steps back
RoundTrip(s, k) ==
  ZoomTimes(ZoomTimes(s, WheelIn, k), WheelBack, k).display_scale

InRange(scale) == ~FLess(scale, ScaleLow) /\ ~FLess(ScaleHigh, scale)

\* 1.0 - 2^-52, the float two units of the last place below 1.0
JustBelowOne ==
  [man |-> BSub(ShiftLeft(<<1>>, MantissaBits), <<2>>), exp |-> -MantissaBits]

\* C12 as written: the scale is always in [0.1, 5.0]; from scale 1.0, k
\* steps in that never reach the clamp followed by k steps back give 1.0
\* again; without an image a wheel event leaves the scale alone.
C12_ZoomRoundTripExact ==
  /\ InRange(display_scale)
  /\ image # None /\ display_scale = One =>
       \A k \in 1 .. MaxWheel : Unclamped(cur, k) => RoundTrip(cur, k) = One
  /\ image = None =>
       \A ev \in WheelEvents :
         zoom(cur, ev.delta, ev.num).display_scale = display_scale

\* C12 as amended: the scale is always in [0.1, 5.0]; from scale 1.0, k
\* steps in that never reach the clamp followed by k steps back give 1.0
\* exactly for k up to 14, k = 5 among them, and 1.0 - 2^-52 for the
\* larger k; without an image a wheel event leaves the scale alone.
C12_ZoomRoundTripWithinTolerance ==
  /\ InRange(display_scale)
  /\ image # None /\ display_scale = One =>
       \A k \in 1 .. MaxWheel :
         Unclamped(cur, k) =>
           RoundTrip(cur, k) = IF k <= 14 THEN One ELSE JustBelowOne
  /\ image = None =>
       \A ev \in WheelEvents :
         zoom(cur, ev.delta, ev.num).display_scale = display_scale

\* the wheel has brought the scale to the upper limit
C12_Witness ==
  /\ image # None
  /\ display_scale = ScaleHigh

\* C13: clear_mask with no mask leaves the mask absent and the undo and the
\* redo stack as they are.
C13_ClearOfAbsentMaskIsNoOp ==
  mask = None =>
    LET cleared == clear_mask(cur) IN
      /\ cleared.mask = None
      /\ cleared.undo_stack = undo_stack
      /\ cleared.redo_stack = redo_stack

\* clear_mask has just run without a mask, and there is something to redo
\* that it could have dropped
C13_Witness ==
  /\ LastOp = "clear_mask:absent"
  /\ mask = None
  /\ redo_stack # <<>>

\* C14: undo with an empty undo stack, and redo with an empty redo stack,
\* leave mask, undo stack and redo stack as they are.
C14_EmptyUndoRedoAreNoOps ==
  /\ undo_stack = <<>> => Durable(undo_last_stroke(cur)) = Durable(cur)
  /\ redo_stack = <<>> => Durable(redo_last_stroke(cur)) = Durable(cur)

\* undo has just run with nothing to undo, while a mask is there and an
\* earlier undo has left something to redo
C14_Witness ==
  /\ LastOp = "undo_last_stroke:empty"
  /\ mask # None
  /\ undo_stack = <<>>
  /\ redo_stack # <<>>

\* C15: while a revert of a preview is pending, a stroke, clear_mask, undo,
\* redo, generate_inpainting and load_image change neither the image nor
\* the mask nor the undo stack nor the redo stack.
C15_PreviewSuppressesEdits ==
  timers # <<>> =>
    /\ \A x0 \in XCoords, x1 \in XCoords :
         Durable(Stroke(cur, x0, x1)) = Durable(cur)
    /\ Durable(clear_mask(cur)) = Durable(cur)
    /\ Durable(undo_last_stroke(cur)) = Durable(cur)
    /\ Durable(redo_last_stroke(cur)) = Durable(cur)
    /\ \A text \in Texts, outcome \in PipelineOutcomes :
         Suspends(cur, text) =>
           Durable(generate_return(generate_enter(cur, text), outcome))
             = Durable(cur)
    /\ \A file_path \in Paths :
         Durable(load_image(cur, file_path)) = Durable(cur)

\* C16: while a generate_inpainting call is suspended in root.update(), the
\* image and the mask are the ones the call has read for the pipeline: no
\* handler has replaced or changed them since.
C16_GenerationIsGuardState ==
  gen_stack # <<>> =>
    /\ image # None
    /\ mask # None
    /\ Top(gen_stack).init_image = Convert(image, "RGB")
    /\ Top(gen_stack).mask_image.size = mask.size
    /\ Top(gen_stack).mask_image.px = mask.px

\* C18: without an image, pointer-down, pointer-move, pointer-up and the
\* wheel leave the mask absent, the undo and the redo stack and the scale
\* as they are, and the recorder idle.
C18_NoImageNoPointerEffect ==
  image = None =>
    LET Untouched(s) ==
          /\ s.image = None
          /\ s.mask = None
          /\ s.undo_stack = undo_stack
          /\ s.redo_stack = redo_stack
          /\ s.display_scale = display_scale
          /\ s.drawing = FALSE
    IN /\ mask = None
       /\ \A x \in XCoords, y \in YCoords :
            /\ Untouched(start_drawing(cur, x, y))
            /\ Untouched(draw(cur, x, y))
            /\ Untouched(draw(start_drawing(cur, x, y), x, y))
       /\ Untouched(stop_drawing(cur))
       /\ \A ev \in WheelEvents : Untouched(zoom(cur, ev.delta, ev.num))

\* the pointer was pressed and moved before any image was loaded
C18_Witness ==
  /\ image = None
  /\ log = <<"start_drawing:no_image", "draw:ignored">>
  /\ ~drawing

\* C19: a pointer-move while the recorder is idle changes neither the mask
\* nor the history nor the last recorded point; a pointer-move and a
\* pointer-up while it is drawing leave the undo and the redo stack as they
\* are, and the pointer-up leaves it idle.
C19_RecorderIdleDrawingIdle ==
  /\ ~drawing =>
       \A x \in XCoords, y \in YCoords :
         LET moved == draw(cur, x, y) IN
           /\ Durable(moved) = Durable(cur)
           /\ moved.last_x = last_x
           /\ moved.last_y = last_y
           /\ ~moved.drawing
  /\ drawing =>
       /\ \A x \in XCoords, y \in YCoords :
            LET moved == draw(cur, x, y) IN
              /\ moved.undo_stack = undo_stack
              /\ moved.redo_stack = redo_stack
              /\ moved.drawing
       /\ stop_drawing(cur).undo_stack = undo_stack
       /\ stop_drawing(cur).redo_stack = redo_stack
       /\ stop_drawing(cur).mask = mask
       /\ ~stop_drawing(cur).drawing

\* a stroke has ended on a painted mask with a snapshot on the undo stack,
\* and the pointer was moved again without being pressed
C19_Witness ==
  /\ log = <<"stop_drawing", "draw:ignored">>
  /\ ~drawing
  /\ mask # None
  /\ undo_stack # <<>>

Snapshots(s) == s.undo_stack \o s.redo_stack

\* what each snapshot shows
History(s) == [i \in 1 .. Len(Snapshots(s)) |-> Pixels(Snapshots(s)[i])]

\* C17: no entry of the undo or the redo stack is the buffer of the live
\* mask or the buffer of another entry, and a pointer-move that paints the
\* live mask leaves what every entry shows as it was.
C17_SnapshotsAreSeparateCopies ==
  LET stored == Snapshots(cur) IN
    /\ \A i \in 1 .. Len(stored) :
         /\ stored[i] # None
         /\ mask # None => stored[i].id # mask.id
         /\ \A j \in 1 .. Len(stored) : i # j => stored[i].id # stored[j].id
    /\ \A x \in XCoords, y \in YCoords :
         History(draw(cur, x, y)) = History(cur)

\* a stroke has painted pixels that its snapshot on the undo stack does not
\* show
C17_Witness ==
  /\ LastOp = "draw"
  /\ drawing
  /\ mask # None
  /\ undo_stack # <<>>
  /\ Pixels(Top(undo_stack)).px # {}
  /\ Pixels(Top(undo_stack)) # Pixels(mask)

====
